---- MODULE Spec2Model ----
(***************************************************************************)
(* Model of src/streamlit_app.py: a Streamlit dashboard script that reads  *)
(* a Google spreadsheet through a TTL cache, renames its columns by        *)
(* position, shows the last row, and (in its else branch) computes the     *)
(* historical metrics, the cumulative rate and the hourly heat map.        *)
(* One script run is one action; the spreadsheet is edited by its owner    *)
(* between runs.                                                           *)
(***************************************************************************)
EXTENDS Integers, Sequences, FiniteSets, TLC

\* ---------------------------------------------------------------- bounds
MaxRows == 2
MaxCols == 5

\* ------------------------------------------------------ program constants
TTL == 5
Interval == 1
HoursPerDay == 24

\* ------------------------------------------------------------ cell values
None == "None"
Date0 == "2024-12-04"
Img0 == "http://img/1.jpg"
Extra0 == "x"
\* a Time cell "HH:MM:SS" is kept as its three numeric fields
GoodTime == <<8, 0, 0>>
BadTime == <<25, 99, 0>>
Times == {GoodTime, BadTime}
Flags == {0, 1}

Cell(i, t, f) ==
    IF i = 1 THEN Date0
    ELSE IF i = 2 THEN t
    ELSE IF i = 3 THEN f
    ELSE IF i = 4 THEN Img0
    ELSE Extra0

RowsOf(n) == {[i \in 1..n |-> Cell(i, t, f)] : t \in Times, f \in Flags}

InitSheet == [ncols |-> 3, rows |-> <<>>]

\* -------------------------------------------------------------- variables
VARIABLES sheet, cache, conn_read, ns, display, outcome

vars == <<sheet, cache, conn_read, ns, display, outcome>>

NoCache == [valid |-> FALSE]
EmptyNs == [x \in {} |-> 0]

Bound(name, n) == name \in DOMAIN n

\* ------------------------------------------------------------- arithmetic
RECURSIVE GCD(_, _)
GCD(a, b) == IF b = 0 THEN a ELSE GCD(b, a % b)

\* a / b as an exact fraction in lowest terms (b > 0)
Rat(a, b) == LET g == GCD(a, b) IN [num |-> a \div g, den |-> b \div g]
Zero == [num |-> 0, den |-> 1]

RECURSIVE SumDetection(_)
SumDetection(df) ==
    IF df = <<>> THEN 0
    ELSE SumDetection(SubSeq(df, 1, Len(df) - 1)) + df[Len(df)].Detection

El(kind, data) == [kind |-> kind, data |-> data]

\* ------------------------------------------------------------- load_data
\* df.columns = ["Date", "Time", "Detection", "Image_URL"]
Columns4(rows) ==
    [i \in 1..Len(rows) |->
        [Date |-> rows[i][1], Time |-> rows[i][2],
         Detection |-> rows[i][3], Image_URL |-> rows[i][4]]]

\* mutant: the frame comes back newest row first
Columns3_reversed(rows) ==
    [i \in 1..Len(rows) |->
        [Date |-> rows[Len(rows) + 1 - i][1], Time |-> rows[Len(rows) + 1 - i][2],
         Detection |-> rows[Len(rows) + 1 - i][3], Image_URL |-> None]]

\* df.columns = ["Date", "Time", "Detection"]; df["Image_URL"] = None
Columns3(rows) ==
    [i \in 1..Len(rows) |->
        [Date |-> rows[i][1], Time |-> rows[i][2],
         Detection |-> rows[i][3], Image_URL |-> None]]

\* mutant: the message reports a zero-based column count
SchemaMessage_off_by_one(n) == [count |-> n - 1, expected |-> {3, 4}]

\* f"Dataframe has {len(df.columns)} columns, but 3 or 4 columns are expected."
SchemaMessage(n) == [count |-> n, expected |-> {3, 4}]

\* mutant: st.stop() is missing after st.error, the frame is returned
load_data_body_no_stop(t) ==
    LET written == <<El("write", "Raw data loaded from Google Spreadsheet:"),
                     El("write", t)>>
    IN  IF t.ncols = 4
        THEN [stop |-> FALSE, df |-> Columns4(t.rows), elems |-> written]
        ELSE IF t.ncols = 3
        THEN [stop |-> FALSE, df |-> Columns3(t.rows), elems |-> written]
        ELSE [stop |-> FALSE, df |-> <<>>,
              elems |-> Append(written, El("error", SchemaMessage(t.ncols)))]

\* the body of load_data on the table conn.read returned; stop = st.stop()
load_data_body(t) ==
    LET written == <<El("write", "Raw data loaded from Google Spreadsheet:"),
                     El("write", t)>>
    IN  IF t.ncols = 4
        THEN [stop |-> FALSE, df |-> Columns4(t.rows), elems |-> written]
        ELSE IF t.ncols = 3
        THEN [stop |-> FALSE, df |-> Columns3(t.rows), elems |-> written]
        ELSE [stop |-> TRUE, df |-> <<>>,
              elems |-> Append(written, El("error", SchemaMessage(t.ncols)))]

\* @st.cache_data(ttl=5): a live entry answers the call and replays the
\* elements the body wrote; otherwise the body runs, and its result is
\* stored only when it returns
load_data(c, s) ==
    IF c.valid
    THEN [stop |-> FALSE, df |-> c.df, elems |-> c.elems, read |-> <<>>, cache |-> c]
    ELSE LET r == load_data_body(s)
         IN  [stop |-> r.stop, df |-> r.df, elems |-> r.elems, read |-> <<s>>,
              cache |-> IF r.stop THEN NoCache
                        ELSE [valid |-> TRUE, df |-> r.df, elems |-> r.elems, age |-> 0]]

\* --------------------------------------------------------- last-row branch
\* mutant: df.iloc[0] instead of df.iloc[-1]
first_row_of(df) == df[1]

\* last_row = df.iloc[-1]
last_row_of(df) == df[Len(df)]

LiveBranch(df, imgOk) ==
    LET last_row == last_row_of(df)
        last_time == last_row.Time
        last_detection == last_row.Detection
        last_image_url == last_row.Image_URL
        live == <<El("subheader", "Live Detection"),
                  El("live", [time |-> last_time,
                              status |-> IF last_detection = 1 THEN "DETECTED"
                                         ELSE "NOT DETECTED"])>>
        image == IF last_image_url # None
                 THEN <<El("subheader", "Latest Detection Image"),
                        IF imgOk THEN El("image", last_image_url)
                        ELSE El("error", [text |-> "Error loading image"])>>
                 ELSE <<>>
    IN  [stop |-> FALSE,
         ns |-> ("last_row" :> last_row) @@ ("last_time" :> last_time)
                @@ ("last_detection" :> last_detection)
                @@ ("last_image_url" :> last_image_url),
         elems |-> live \o image]

\* ------------------------------------------------------------ else branch
\* strptime with format "%H:%M:%S"
ValidTime(t) == t[1] \in 0..23 /\ t[2] \in 0..59 /\ t[3] \in 0..59

NaT == <<>>

\* pd.to_datetime(df["Time"], format="%H:%M:%S", errors="coerce")
time_series_of(df) ==
    [i \in 1..Len(df) |-> IF ValidTime(df[i].Time) THEN df[i].Time ELSE NaT]

\* df["Detection"].cumsum() / (df.index + 1) * 100
detection_cumsum_of(df) ==
    [i \in 1..Len(df) |-> Rat(SumDetection(SubSeq(df, 1, i)) * 100, i)]

\* pd.to_datetime(df["Time"], format="%H:%M:%S") raises on the first bad cell
ParseRaises(df) == \E i \in 1..Len(df) : ~ValidTime(df[i].Time)

HourOf(t) == t[1]

RECURSIVE SumHour(_, _)
SumHour(df, h) ==
    IF df = <<>> THEN 0
    ELSE SumHour(SubSeq(df, 1, Len(df) - 1), h)
         + (IF HourOf(df[Len(df)].Time) = h THEN df[Len(df)].Detection ELSE 0)

\* df.groupby("Hour")["Detection"].sum(): one entry per hour that occurs
hourly_counts_of(df) ==
    [h \in {HourOf(df[i].Time) : i \in 1..Len(df)} |-> SumHour(df, h)]

heatmap_data_of(hourly_counts) ==
    [h \in 0..(HoursPerDay - 1) |->
        IF h \in DOMAIN hourly_counts THEN hourly_counts[h] ELSE 0]

MetricsBranch(df) ==
    LET total_images == Len(df)
        total_detections == SumDetection(df)
        detection_rate == IF total_images > 0
                          THEN Rat(total_detections * 100, total_images)
                          ELSE Zero
        avg_detections_per_hour == IF total_detections > 0
                                   THEN Rat(total_detections, HoursPerDay)
                                   ELSE Zero
        sizes == <<total_detections, total_images - total_detections>>
        time_series == time_series_of(df)
        detection_cumsum == detection_cumsum_of(df)
        upto_cumsum ==
            <<El("warning", "No data available"),
              El("subheader", "Historical Metrics and Analysis"),
              El("metrics", [total_images |-> total_images,
                             total_detections |-> total_detections,
                             detection_rate |-> detection_rate,
                             avg_detections_per_hour |-> avg_detections_per_hour]),
              El("pie", sizes),
              El("subheader", "Cumulative Detection Rate Over Time"),
              El("line", [x |-> time_series, y |-> detection_cumsum]),
              El("subheader", "Heatmap")>>
        ns_cumsum ==
            ("total_images" :> total_images)
            @@ ("total_detections" :> total_detections)
            @@ ("detection_rate" :> detection_rate)
            @@ ("avg_detections_per_hour" :> avg_detections_per_hour)
            @@ ("time_series" :> time_series)
            @@ ("detection_cumsum" :> detection_cumsum)
    IN  IF ParseRaises(df)
        THEN [stop |-> TRUE, ns |-> ns_cumsum,
              elems |-> Append(upto_cumsum, El("error", [text |-> "Error parsing Time column"]))]
        ELSE LET hourly_counts == hourly_counts_of(df)
                 heatmap_data == heatmap_data_of(hourly_counts)
             IN  [stop |-> FALSE,
                  ns |-> ns_cumsum @@ ("hourly_counts" :> hourly_counts)
                         @@ ("heatmap_data" :> heatmap_data),
                  elems |-> upto_cumsum
                            \o <<El("heatmap", heatmap_data),
                                 El("subheader", "Historical Data Table"),
                                 El("dataframe", df)>>]

\* ---------------------------------------------------------- the script run
\* lines 12-40: page header, st_autorefresh, clock placeholder
Header == <<El("title", "Illegal Parking Monitoring"), El("clock", "now")>>

\* lines 182-188: the placeholder is updated, then time.sleep(1) is
\* evaluated; the module never imports time, so the name lookup raises
\* NameError and neither st.cache_data.clear() nor st.rerun() is reached
ClockLoop(r) ==
    [cache |-> r.cache,
     ns |-> r.ns @@ ("current_time" :> "now"),
     display |-> Append(r.display, El("exception", "NameError: name 'time' is not defined")),
     outcome |-> "NameError"]

Script(c, s, imgOk) ==
    LET ld == load_data(c, s)
    IN  IF ld.stop
        THEN [read |-> ld.read, cache |-> ld.cache, ns |-> EmptyNs,
              display |-> Header \o ld.elems, outcome |-> "stopped"]
        ELSE LET b == IF ld.df # <<>> THEN LiveBranch(ld.df, imgOk)
                      ELSE MetricsBranch(ld.df)
                 sofar == [cache |-> ld.cache,
                           ns |-> b.ns @@ ("df" :> ld.df),
                           display |-> Header \o ld.elems \o b.elems]
             IN  IF b.stop
                 THEN [read |-> ld.read, cache |-> ld.cache, ns |-> sofar.ns,
                       display |-> sofar.display, outcome |-> "stopped"]
                 ELSE LET e == ClockLoop(sofar)
                      IN  [read |-> ld.read, cache |-> e.cache, ns |-> e.ns,
                           display |-> e.display, outcome |-> e.outcome]

\* the cache entry as seen dt seconds later
Aged(c, dt) ==
    IF c.valid /\ c.age + dt < TTL THEN [c EXCEPT !.age = c.age + dt]
    ELSE NoCache

Run(c, imgOk) ==
    LET r == Script(c, sheet, imgOk)
    IN  /\ cache' = r.cache
        /\ conn_read' = r.read
        /\ ns' = r.ns
        /\ display' = r.display
        /\ outcome' = r.outcome
        /\ UNCHANGED sheet

\* ----------------------------------------------------------------- actions
Init ==
    /\ sheet = InitSheet
    /\ cache = NoCache
    /\ conn_read = <<>>
    /\ ns = EmptyNs
    /\ display = <<>>
    /\ outcome = "none"

\* the browser opens the page: the first script run of the session
PageLoad ==
    /\ outcome = "none"
    /\ \E imgOk \in BOOLEAN : Run(cache, imgOk)

\* st_autorefresh(interval=1000): the timer reruns the script one second on
AutoRefresh ==
    /\ outcome # "none"
    /\ \E imgOk \in BOOLEAN : Run(Aged(cache, Interval), imgOk)

\* the spreadsheet changes between two runs: a detection is appended, the
\* rows are cleared, or the header of the empty sheet gets another width
AppendRow ==
    /\ Len(sheet.rows) < MaxRows
    /\ \E r \in RowsOf(sheet.ncols) : sheet' = [sheet EXCEPT !.rows = Append(@, r)]
    /\ UNCHANGED <<cache, conn_read, ns, display, outcome>>

ClearRows ==
    /\ sheet.rows # <<>>
    /\ sheet' = [sheet EXCEPT !.rows = <<>>]
    /\ UNCHANGED <<cache, conn_read, ns, display, outcome>>

SetColumns ==
    /\ sheet.rows = <<>>
    /\ \E n \in (1..MaxCols) \ {sheet.ncols} : sheet' = [sheet EXCEPT !.ncols = n]
    /\ UNCHANGED <<cache, conn_read, ns, display, outcome>>

Next == PageLoad \/ AutoRefresh \/ AppendRow \/ ClearRows \/ SetColumns

Spec == Init /\ [][Next]_vars

\* ------------------------------------------------------------ vocabulary
Ran == outcome # "none"
Fetched == conn_read # <<>>
Raw == conn_read[1]
HasKind(k) == \E i \in 1..Len(display) : display[i].kind = k
IsSchemaError(e) == e.kind = "error" /\ "count" \in DOMAIN e.data
SchemaFailed == Fetched /\ Raw.ncols \notin {3, 4}
ValidRows(df) == SelectSeq(df, LAMBDA r : ValidTime(r.Time))
FlagsInHour(df, h) == SumDetection(SelectSeq(ValidRows(df), LAMBDA r : r.Time[1] = h))

RECURSIVE SumOver(_, _)
SumOver(f, S) ==
    IF S = {} THEN 0
    ELSE LET x == CHOOSE y \in S : TRUE IN f[x] + SumOver(f, S \ {x})

\* ------------------------------------------------------------------- C1
\* C1 (as claimed): a fetched table of 2, 3 or 4 columns is normalized to
\* rows of (Date, Time, Detection, Image_URL) in source order; 2 columns
\* give Detection = 0 and Image_URL = None in every row.
C1_NormalizesTwoThreeFour ==
    (Fetched /\ Raw.ncols \in {2, 3, 4}) =>
        /\ Bound("df", ns)
        /\ Len(ns.df) = Len(Raw.rows)
        /\ \A i \in 1..Len(Raw.rows) :
            /\ ns.df[i].Date = Raw.rows[i][1]
            /\ ns.df[i].Time = Raw.rows[i][2]
            /\ ns.df[i].Detection = (IF Raw.ncols >= 3 THEN Raw.rows[i][3] ELSE 0)
            /\ ns.df[i].Image_URL = (IF Raw.ncols = 4 THEN Raw.rows[i][4] ELSE None)

\* C1 (amended): a fetched table of 3 or 4 columns is normalized to rows of
\* (Date, Time, Detection, Image_URL) in source order, Image_URL = None for
\* 3 columns; a table of 2 columns is rejected: load_data stops the run and
\* no frame is bound.
C1_NormalizesThreeFour ==
    /\ (Fetched /\ Raw.ncols \in {3, 4}) =>
        /\ Bound("df", ns)
        /\ DOMAIN ns.df = 1..Len(Raw.rows)
        /\ \A i \in 1..Len(Raw.rows) :
            /\ DOMAIN ns.df[i] = {"Date", "Time", "Detection", "Image_URL"}
            /\ ns.df[i].Date = Raw.rows[i][1]
            /\ ns.df[i].Time = Raw.rows[i][2]
            /\ ns.df[i].Detection = Raw.rows[i][3]
            /\ ns.df[i].Image_URL = (IF Raw.ncols = 4 THEN Raw.rows[i][4] ELSE None)
    /\ (Fetched /\ Raw.ncols = 2) => (outcome = "stopped" /\ ~Bound("df", ns))

C1_Witness ==
    /\ Fetched /\ Raw.ncols = 3 /\ Len(Raw.rows) = 2
    /\ Raw.rows[1] # Raw.rows[2]
    /\ Bound("df", ns) /\ Len(ns.df) = 2

\* ------------------------------------------------------------------- C2
\* C2 (as claimed): a fetched table whose column count is outside {2,3,4}
\* stops the run with an error that reports the count and the accepted set
\* {2,3,4}; nothing is normalized, computed or rendered after it.
C2_ErrorNamesTwoThreeFour ==
    (Fetched /\ Raw.ncols \notin {2, 3, 4}) =>
        /\ outcome = "stopped"
        /\ ns = EmptyNs
        /\ IsSchemaError(display[Len(display)])
        /\ display[Len(display)].data.count = Raw.ncols
        /\ display[Len(display)].data.expected = {2, 3, 4}

\* C2 (amended): a fetched table whose column count is outside {3,4} stops
\* the run with an error that reports the count and the accepted set {3,4};
\* the error is the last element of the run, no name is bound and no
\* metrics, chart or live status is rendered.
C2_ErrorNamesThreeFour ==
    (Fetched /\ Raw.ncols \notin {3, 4}) =>
        /\ outcome = "stopped"
        /\ ns = EmptyNs
        /\ IsSchemaError(display[Len(display)])
        /\ display[Len(display)].data.count = Raw.ncols
        /\ display[Len(display)].data.expected = {3, 4}
        /\ \A k \in {"live", "metrics", "pie", "line", "heatmap", "dataframe"} : ~HasKind(k)

C2_Witness ==
    /\ Fetched /\ Raw.ncols = 5 /\ Len(Raw.rows) = 1
    /\ outcome = "stopped"

\* ------------------------------------------------------------------- C3
\* C3: every run whose table passes the schema check, empty or not, binds
\* total_images = number of rows, total_detections = sum of Detection,
\* detection_rate = detections / rows * 100 (0 without rows) and
\* avg_detections_per_hour = detections / 24 (0 without detections).
C3_StatsEveryCycle ==
    (Ran /\ Bound("df", ns)) =>
        /\ Bound("total_images", ns)
        /\ ns.total_images = Len(ns.df)
        /\ ns.total_detections = SumDetection(ns.df)
        /\ ns.detection_rate = (IF Len(ns.df) = 0 THEN Zero
                                ELSE Rat(SumDetection(ns.df) * 100, Len(ns.df)))
        /\ ns.avg_detections_per_hour = (IF SumDetection(ns.df) = 0 THEN Zero
                                         ELSE Rat(SumDetection(ns.df), 24))

\* ------------------------------------------------------------------- C4
\* C4: a row whose time does not parse never aborts the aggregation: the
\* run is not stopped, the row is counted in total_images, and the heat map
\* and the cumulative series are still produced without it.
C4_BadTimeNotFatal ==
    (Ran /\ Bound("df", ns) /\ ParseRaises(ns.df)) =>
        /\ outcome # "stopped"
        /\ Bound("total_images", ns)
        /\ ns.total_images = Len(ns.df)
        /\ Bound("heatmap_data", ns)
        /\ \A h \in 0..23 : ns.heatmap_data[h] = FlagsInHour(ns.df, h)
        /\ Bound("detection_cumsum", ns)
        /\ Len(ns.detection_cumsum) = Len(ValidRows(ns.df))

\* ------------------------------------------------------------------- C5
\* C5: for every table the heat map has exactly the keys 0..23, key h holds
\* the sum of Detection over the rows whose time parses to hour h, and the
\* values add up to total detections minus the flags of unparseable rows.
C5_HistogramEveryTable ==
    (Ran /\ Bound("df", ns)) =>
        /\ Bound("heatmap_data", ns)
        /\ DOMAIN ns.heatmap_data = 0..23
        /\ \A h \in 0..23 : ns.heatmap_data[h] = FlagsInHour(ns.df, h)
        /\ SumOver(ns.heatmap_data, 0..23) = SumDetection(ValidRows(ns.df))

\* ------------------------------------------------------------------- C6
\* C6: the cumulative rate series runs over the rows with a parseable time
\* only; its i-th value is the sum of the first i flags of that subsequence
\* over i, times 100, and lies in [0, 100].
C6_SeriesOverValidRows ==
    (Ran /\ Bound("df", ns)) =>
        /\ Bound("detection_cumsum", ns)
        /\ DOMAIN ns.detection_cumsum = 1..Len(ValidRows(ns.df))
        /\ \A i \in 1..Len(ValidRows(ns.df)) :
            /\ ns.detection_cumsum[i]
                 = Rat(SumDetection(SubSeq(ValidRows(ns.df), 1, i)) * 100, i)
            /\ ns.detection_cumsum[i].num >= 0
            /\ ns.detection_cumsum[i].num <= 100 * ns.detection_cumsum[i].den

\* ------------------------------------------------------------------- C7
\* C7 (as claimed): when a run fails the schema check, an aggregate that
\* was on display before that run is still on display after it.
C7_KeepsLastAggregate ==
    [][(HasKind("metrics") /\ SchemaFailed') => HasKind("metrics")']_vars

\* C7 (amended): a run that fails the schema check ends by st.stop(), not
\* by an exception; it leaves exactly the page header, the raw table and
\* the schema error on display, and no aggregate of this or an earlier run.
C7_StopShowsOnlyError ==
    SchemaFailed =>
        /\ outcome = "stopped"
        /\ ~HasKind("exception")
        /\ Len(display) = Len(Header) + 3
        /\ display[Len(Header) + 2] = El("write", Raw)
        /\ \E i \in 1..Len(display) : IsSchemaError(display[i])
        /\ ~HasKind("metrics") /\ ~HasKind("heatmap") /\ ~HasKind("line")

C7_Witness ==
    /\ Fetched /\ Raw.ncols = 1 /\ Raw.rows # <<>>
    /\ outcome = "stopped"
    /\ \E i \in 1..Len(display) : IsSchemaError(display[i])

\* ------------------------------------------------------------------- C8
\* C8: every script run reads the spreadsheet itself; no run takes its
\* table from the cache entry of an earlier run.
C8_EveryRunFetches == Ran => Fetched

\* ------------------------------------------------------------------- C9
\* C9: last_row is the final row of the table in source order whether or
\* not its time parses, and the live status shows it; for an empty table no
\* last_row is bound and no live status is shown.
C9_LastEvent ==
    (Ran /\ Bound("df", ns)) =>
        IF ns.df # <<>>
        THEN /\ Bound("last_row", ns)
             /\ ns.last_row = ns.df[Len(ns.df)]
             /\ Fetched => /\ ns.last_row.Time = Raw.rows[Len(Raw.rows)][2]
                           /\ ns.last_row.Detection = Raw.rows[Len(Raw.rows)][3]
             /\ \E i \in 1..Len(display) :
                    /\ display[i].kind = "live"
                    /\ display[i].data.time = ns.df[Len(ns.df)].Time
                    /\ display[i].data.status = "DETECTED"
                         <=> ns.df[Len(ns.df)].Detection = 1
        ELSE /\ ~Bound("last_row", ns)
             /\ ~HasKind("live")

C9_Witness ==
    /\ Ran /\ Fetched /\ Bound("last_row", ns)
    /\ Len(ns.df) = 2
    /\ ValidTime(ns.df[1].Time) /\ ~ValidTime(ns.df[2].Time)
    /\ ns.df[1].Detection # ns.df[2].Detection
    /\ ns.last_row = ns.df[2]

\* ------------------------------------------------------------------ C10
\* C10: for an empty table of valid width the run completes without error
\* with total_images = 0, total_detections = 0, detection_rate = 0,
\* avg_detections_per_hour = 0, a heat map of 24 zeros, an empty cumulative
\* series and no last_row.
C10_EmptyTableCycle ==
    (Ran /\ Bound("df", ns) /\ ns.df = <<>>) =>
        /\ ns.total_images = 0
        /\ ns.total_detections = 0
        /\ ns.detection_rate = Zero
        /\ ns.avg_detections_per_hour = Zero
        /\ DOMAIN ns.heatmap_data = 0..23
        /\ \A h \in 0..23 : ns.heatmap_data[h] = 0
        /\ ns.detection_cumsum = <<>>
        /\ ~Bound("last_row", ns)
        /\ ~HasKind("exception")
        /\ outcome \notin {"stopped", "NameError"}

====
